---- MODULE Spec2Model ----
(***************************************************************************)
(* State-machine model of the NATS client wrapper (nats-client.js, kept in *)
(* src/unnamed/part_000, current version at lines 237-638).                *)
(*                                                                         *)
(* The module state of the wrapper (nc, kv, jsm, activeKvWatcher,          *)
(* subscriptions, subCounter, statsInterval) is modelled field by field.   *)
(* The objects handed out by the client library (connections, watchers,    *)
(* subscription handles, interval timers) are modelled by their observable *)
(* state.  Every exported async function is split at its awaits: the call  *)
(* runs up to the first await that really suspends, and one action per     *)
(* await resumes it, so handlers interleave exactly as on the event loop.  *)
(***************************************************************************)
EXTENDS Integers, Sequences, FiniteSets, TLC

\* ------------------------------------------------------------------ bounds
MaxConns == 3       \* connection objects the library ever hands out
MaxTasks == 2       \* async calls of the wrapper in flight at once
MaxSubs == 2        \* subscriptions made between two resets of the counter
MaxWatchers == 2    \* watcher iterators the library ever hands out

ConnIds == 1..MaxConns
TaskIds == 1..MaxTasks
Buckets == {"A", "B"}
Subjects == {"orders"}

\* authOptions as the caller fills it in: a credentials file or none, and the
\* token, user and password fields, "" when left empty.
AuthOptions(credsFile, token, user, pass) ==
  [credsFile |-> credsFile, token |-> token, user |-> user, pass |-> pass]
NoAuth == AuthOptions("none", "", "", "")
CredsKinds == {NoAuth, AuthOptions("file", "", "", "")}

\* The text of a credentials file, in pieces: the user-JWT begin marker, the
\* line ends and whatever else it holds.
JwtMarker == "-----BEGIN NATS USER JWT-----"
CredsTexts ==
  {<<JwtMarker, "\n", "jwt">>, <<JwtMarker, "\r\n", "jwt">>,
   <<"# notes", "\r\n", JwtMarker, "\n", "jwt">>,
   <<"# notes", "\n", "jwt">>, <<>>}

VARIABLES
  nc,               \* part_000:258  0 is null, else the connection held
  kv,               \* part_000:259  the open bucket handle, NoKv is null
  jsm,              \* part_000:260  0 is null, else the connection it came from
  activeKvWatcher,  \* part_000:261  0 is null, else an index into watchers
  subscriptions,    \* part_000:264  Map id -> {sub, subject}
  subCounter,       \* part_000:265
  statsInterval,    \* part_000:266  0 is null, else a timer handle
  conns,            \* library: state of every connection object
  watchers,         \* library: every watcher iterator ever created
  activeTimers,     \* browser: interval timers that still fire
  observed,         \* library: connections whose status() and closed() are observed
  told,             \* what onStatusChange was called with for each connection, in order
  unsubCalls,       \* library: sub.unsubscribe() calls on the handle of each id issued
                    \* since the counter was last reset
  tasks,            \* the async calls in flight, each at one of its awaits
  issued,           \* ids returned by subscribe since the counter was last reset
  arg,              \* the input of the function call under examination
  ret,              \* what that call returned, NotCalled before it
  deadLoops,        \* the delivery loops an exception has ended, as <<connection, id>>
  localStorage,     \* browser: the text stored under each key, <<>> when there is none
  logHistory,       \* part_001:327  the entries kept for export, oldest first
  isPaused,         \* part_001:330
  msgCounter,       \* part_001:333  messages rendered so far
  kvKeysMap,        \* main.js:187   the keys listed, each with the bucket whose watcher
                    \*               reported it
  kvBucketSelect,   \* main.js:190   the bucket chosen in the select box, "none" for none
  event             \* what the latest step did and returned to its caller

vars == <<nc, kv, jsm, activeKvWatcher, subscriptions, subCounter, statsInterval,
          conns, watchers, activeTimers, observed, told, unsubCalls,
          tasks, issued, arg, ret, deadLoops,
          localStorage, logHistory, isPaused, msgCounter, kvKeysMap, kvBucketSelect, event>>

session == <<nc, kv, jsm, activeKvWatcher, subscriptions, subCounter, statsInterval>>
library == <<conns, watchers, activeTimers, observed, told, unsubCalls>>
page == <<logHistory, isPaused, msgCounter, kvKeysMap, kvBucketSelect>>
outer == <<arg, ret, deadLoops, localStorage, page>>

NoKv == [conn |-> 0, bucket |-> "none"]
Unset == "(unset)"
NoOpts == [authenticator |-> <<>>, token |-> Unset, user |-> Unset, pass |-> Unset]
NoTask == [op |-> "idle", pc |-> "idle", conn |-> 0, bucket |-> "none",
           creds |-> NoAuth, opts |-> NoOpts, had |-> FALSE]
NoSubs == [i \in {} |-> 0]
NotCalled == [kind |-> "not called"]
\* storage.js:12-16, KEYS
NoItems == [k \in {"nats_url", "nats_subject_history", "nats_url_history"} |-> <<>>]
Untouched ==
  /\ deadLoops = {}
  /\ localStorage = NoItems
  /\ logHistory = <<>>
  /\ isPaused = FALSE
  /\ msgCounter = 0
  /\ kvKeysMap = {}
  /\ kvBucketSelect = "none"

Ev(op, res) == [op |-> op, res |-> res, id |-> 0, size |-> 0, had |-> FALSE]

InitSession ==
  /\ nc = 0
  /\ kv = NoKv
  /\ jsm = 0
  /\ activeKvWatcher = 0
  /\ subscriptions = NoSubs
  /\ subCounter = 0
  /\ statsInterval = 0
  /\ conns = [c \in ConnIds |-> "unused"]
  /\ watchers = <<>>
  /\ activeTimers = {}
  /\ observed = {}
  /\ told = [c \in ConnIds |-> <<>>]
  /\ unsubCalls = [i \in 1..MaxSubs |-> 0]
  /\ tasks = [t \in TaskIds |-> NoTask]
  /\ issued = <<>>
  /\ event = Ev("init", "ok")

Init == InitSession /\ arg = [text |-> <<>>] /\ ret = NotCalled /\ Untouched

\* ----------------------------------------------------------- library model
\* isClosed() of a connection object: true from the moment close() is called.
IsOpen(c) == c # 0 /\ conns[c] = "open"

\* iter.stop(): the iterator ends; stopping twice is harmless.
Stopped == [conn |-> 0, bucket |-> "none", active |-> FALSE]
StopWatcher(ws, w) == IF w = 0 THEN ws ELSE [ws EXCEPT ![w] = Stopped]

\* nc.close(): the connection is closed at once and every iterator it feeds ends.
EndWatchersOf(ws, c) ==
  [i \in DOMAIN ws |-> IF ws[i].conn = c THEN Stopped ELSE ws[i]]

\* The status onStatusChange is called with for a status event of the library,
\* lines 305-312: none for the types the switch does not name.
StatusFor_closing(type) ==
  CASE type = "disconnect" -> <<"disconnected">>
    [] type = "reconnect" -> <<"connected">>
    [] OTHER -> <<>>

StatusFor(type) ==
  CASE type = "disconnect" -> <<"reconnecting">>
    [] type = "reconnect" -> <<"connected">>
    [] OTHER -> <<>>

\* The promise of nc.closed() resolves, once, when connection c closes: the
\* observer of lines 320-322 calls onStatusChange('disconnected', err).
ClosedObserver(log, c) ==
  IF c \in observed /\ conns[c] = "open" THEN [log EXCEPT ![c] = Append(@, "disconnected")]
  ELSE log

FreshConn == CHOOSE c \in ConnIds : conns[c] = "unused" /\ \A d \in ConnIds : conns[d] = "unused" => c <= d

HasFreeTask == \E t \in TaskIds : tasks[t] = NoTask
FreeTask == CHOOSE t \in TaskIds : tasks[t] = NoTask /\ \A u \in TaskIds : tasks[u] = NoTask => t <= u

\* --------------------------------------------------- connection management
\* disconnect(), lines 331-333 up to `await nc.close()`: the poller timer is
\* cleared so that it fires no more (the handle is kept), the watcher is stopped and forgotten, and the
\* connection, if one is held, is told to close.
DisconnectPrefix ==
  /\ activeTimers' = IF statsInterval # 0 THEN activeTimers \ {statsInterval}
                     ELSE activeTimers
  /\ activeKvWatcher' = 0
  /\ statsInterval' = statsInterval
  /\ observed' = observed
  /\ told' = IF nc # 0 THEN ClosedObserver(told, nc) ELSE told
  /\ IF nc # 0
     THEN /\ conns' = [conns EXCEPT ![nc] = "closed"]
          /\ watchers' = EndWatchersOf(StopWatcher(watchers, activeKvWatcher), nc)
     ELSE /\ conns' = conns
          /\ watchers' = StopWatcher(watchers, activeKvWatcher)

\* disconnect(), lines 333-337 after the await: the fields are reset.
DisconnectTail ==
  /\ nc' = 0
  /\ kv' = NoKv
  /\ jsm' = 0
  /\ subscriptions' = NoSubs
  /\ subCounter' = 0
  /\ issued' = <<>>
  /\ UNCHANGED outer
  /\ unsubCalls' = [i \in 1..MaxSubs |-> 0]

\* A choice of method that looks at the user name before the token.
PlainAuth_userFirst(authOptions) ==
  IF authOptions.user # ""
  THEN [NoOpts EXCEPT !.user = authOptions.user, !.pass = authOptions.pass]
  ELSE IF authOptions.token # "" THEN [NoOpts EXCEPT !.token = authOptions.token]
  ELSE NoOpts

\* Lines 292-297, the branches taken without a credentials file: the token if
\* it is not empty, else user and password if the user is not empty.
PlainAuth(authOptions) ==
  IF authOptions.token # "" THEN [NoOpts EXCEPT !.token = authOptions.token]
  ELSE IF authOptions.user # ""
       THEN [NoOpts EXCEPT !.user = authOptions.user, !.pass = authOptions.pass]
  ELSE NoOpts

\* An indexOf that reports the start of the text whatever it holds.
IndexOf_start(text, piece) == 0

\* `rawText.indexOf(marker)` of line 287 counted in pieces, -1 when absent.
IndexOf(text, piece) ==
  IF \E i \in 1..Len(text) : text[i] = piece
  THEN (CHOOSE i \in 1..Len(text) : text[i] = piece /\ \A j \in 1..(i - 1) : text[j] # piece) - 1
  ELSE -1

\* Lines 282-297: the authentication part of the options connect() is given,
\* text being what the credentials file holds when there is one.  The
\* authenticator is given the text from the marker on, line ends made "\n"
\* (288, 290).
ConnectOptions(authOptions, text) ==
  LET from == IF IndexOf(text, JwtMarker) > 0
              THEN SubSeq(text, IndexOf(text, JwtMarker) + 1, Len(text)) ELSE text
  IN IF authOptions.credsFile # "none"
     THEN [NoOpts EXCEPT !.authenticator =
                           [i \in 1..Len(from) |-> IF from[i] = "\r\n" THEN "\n" ELSE from[i]]]
     ELSE PlainAuth(authOptions)

\* connectToNats(), lines 282-299 after `await disconnect()`: with a credentials
\* file the call waits for its text, otherwise connect(opts) is issued at once.
AfterDisconnect(t, creds, had) ==
  IF creds.credsFile = "none"
  THEN /\ tasks' = [tasks EXCEPT ![t] = [NoTask EXCEPT !.op = "connectToNats",
                      !.pc = "connect", !.creds = creds,
                      !.opts = ConnectOptions(creds, <<>>),
                      !.had = had]]
       /\ event' = Ev("connectToNats", "connecting")
  ELSE /\ tasks' = [tasks EXCEPT ![t] = [NoTask EXCEPT !.op = "connectToNats",
                      !.pc = "creds", !.creds = creds, !.had = had]]
       /\ event' = Ev("connectToNats", "reading creds")

disconnect ==
  /\ DisconnectPrefix
  /\ IF nc # 0
     THEN /\ HasFreeTask
          /\ tasks' = [tasks EXCEPT ![FreeTask] = [NoTask EXCEPT !.op = "disconnect",
                         !.pc = "close", !.had = TRUE]]
          /\ event' = Ev("disconnect", "closing")
          /\ UNCHANGED <<nc, kv, jsm, subscriptions, subCounter, issued, unsubCalls, outer>>
     ELSE /\ DisconnectTail
          /\ event' = Ev("disconnect", "ok")
          /\ UNCHANGED tasks

connectToNats(creds) ==
  /\ HasFreeTask
  /\ \E c \in ConnIds : conns[c] = "unused"
  /\ DisconnectPrefix
  /\ IF nc # 0
     THEN /\ tasks' = [tasks EXCEPT ![FreeTask] = [NoTask EXCEPT !.op = "connectToNats",
                         !.pc = "close", !.creds = creds, !.had = TRUE]]
          /\ event' = Ev("connectToNats", "closing")
          /\ UNCHANGED <<nc, kv, jsm, subscriptions, subCounter, issued, unsubCalls, outer>>
     ELSE /\ DisconnectTail
          /\ AfterDisconnect(FreeTask, creds, FALSE)

\* `await nc.close()` of line 333 resumes.
closeResolved(t) ==
  /\ tasks[t].pc = "close"
  /\ DisconnectTail
  /\ IF tasks[t].op = "disconnect"
     THEN /\ tasks' = [tasks EXCEPT ![t] = NoTask]
          /\ event' = Ev("disconnect", "ok")
     ELSE AfterDisconnect(t, tasks[t].creds, TRUE)
  /\ UNCHANGED <<activeKvWatcher, statsInterval, conns, observed, told, watchers, activeTimers>>

\* `await authOptions.credsFile.text()` of line 286 resumes with the file's text,
\* which holds the user-JWT marker or not; lines 287-291.
credsResolved(t, text) ==
  /\ tasks[t].pc = "creds"
  /\ IF IndexOf(text, JwtMarker) = -1
     THEN /\ tasks' = [tasks EXCEPT ![t] = NoTask]
          /\ event' = Ev("connectToNats", "Invalid .creds file")
     ELSE /\ tasks' = [tasks EXCEPT ![t].pc = "connect",
                                    ![t].opts = ConnectOptions(tasks[t].creds, text)]
          /\ event' = Ev("connectToNats", "connecting")
  /\ UNCHANGED <<session, library, issued, outer>>

\* isConnected(), lines 340-342: `!!nc`.
isConnected ==
  /\ event' = Ev("isConnected", IF nc # 0 THEN "true" ELSE "false")
  /\ UNCHANGED <<session, library, tasks, issued, outer>>

\* `await connect(opts)` of line 299 resumes with a connection; lines 299-327:
\* the status loop (302-317) and the closed() observer (320-322) are attached
\* and the stats poller is started (startStatsLoop, 352-364: the previous timer
\* is cleared, a new one set).
connectResolved(t) ==
  /\ tasks[t].pc = "connect"
  /\ \E c \in ConnIds : conns[c] = "unused"
  /\ conns' = [conns EXCEPT ![FreshConn] = "open"]
  /\ nc' = FreshConn
  /\ observed' = observed \cup {FreshConn}
  /\ activeTimers' = (IF statsInterval # 0 THEN activeTimers \ {statsInterval}
                      ELSE activeTimers) \cup {FreshConn}
  /\ statsInterval' = FreshConn
  /\ tasks' = [tasks EXCEPT ![t] = NoTask]
  /\ event' = [Ev("connectToNats", "ok") EXCEPT !.had = tasks[t].had, !.id = FreshConn]
  /\ UNCHANGED <<kv, jsm, activeKvWatcher, subscriptions, subCounter, watchers, unsubCalls,
                 told, issued, outer>>

\* `await connect(opts)` of line 299 rejects: connectToNats throws.
connectRejected(t) ==
  /\ tasks[t].pc = "connect"
  /\ tasks' = [tasks EXCEPT ![t] = NoTask]
  /\ event' = Ev("connectToNats", "connect failed")
  /\ UNCHANGED <<session, library, issued, outer>>

\* The interval timer h fires, lines 355-357 up to `await nc.rtt()`: nothing
\* is done without a connection or on a closed one.
statsTick(h) ==
  /\ h \in activeTimers
  /\ IF nc = 0 \/ ~IsOpen(nc)
     THEN /\ event' = Ev("statsTick", "skipped")
          /\ UNCHANGED tasks
     ELSE /\ HasFreeTask
          /\ tasks' = [tasks EXCEPT ![FreeTask] = [NoTask EXCEPT !.op = "statsTick",
                         !.pc = "rtt", !.conn = nc]]
          /\ event' = Ev("statsTick", "sampling")
  /\ UNCHANGED <<session, library, issued, outer>>

\* `await nc.rtt()` of line 358 resumes with the round-trip time, which goes to
\* onStats (line 359).
rttResolved(t) ==
  /\ tasks[t].pc = "rtt"
  /\ IsOpen(tasks[t].conn)
  /\ tasks' = [tasks EXCEPT ![t] = NoTask]
  /\ event' = Ev("statsTick", "sample")
  /\ UNCHANGED <<session, library, issued, outer>>

\* A failed sample that gives the poller up.
rttRejected_stops(t) ==
  /\ tasks[t].pc = "rtt"
  /\ tasks' = [tasks EXCEPT ![t] = NoTask]
  /\ event' = Ev("statsTick", "Stats poll failed")
  /\ activeTimers' = {}
  /\ UNCHANGED <<session, conns, watchers, observed, told, unsubCalls, issued, outer>>

\* `await nc.rtt()` rejects (connection closed, timeout): the catch of lines
\* 360-362 logs it.
rttRejected(t) ==
  /\ tasks[t].pc = "rtt"
  /\ tasks' = [tasks EXCEPT ![t] = NoTask]
  /\ event' = Ev("statsTick", "Stats poll failed")
  /\ UNCHANGED <<session, library, issued, outer>>

\* The server or the network ends a connection: the library closes it for good.
connectionLost(c) ==
  /\ conns[c] = "open"
  /\ conns' = [conns EXCEPT ![c] = "closed"]
  /\ watchers' = EndWatchersOf(watchers, c)
  /\ told' = ClosedObserver(told, c)
  /\ event' = [Ev("closed", "lost") EXCEPT !.id = c]
  /\ UNCHANGED <<session, activeTimers, observed, unsubCalls, tasks, issued, outer>>

MaxStatus == 2      \* status events the library raises over all connections

\* The library raises a disconnect event when a connection loses its server and
\* a reconnect event when it has it back, so the two alternate.
ServerLost(log) == log # <<>> /\ log[Len(log)] = "reconnecting"
RECURSIVE Total(_, _)
\* The entries of the logs of connections 1..c other than 'disconnected'.
Total(log, c) ==
  IF c = 0 THEN 0
  ELSE Total(log, c - 1) + Len(SelectSeq(log[c], LAMBDA s : s # "disconnected"))

\* `nc.status()` of an open connection yields an event of the given type: one
\* turn of the loop of lines 304-313.
statusEvent(c, type) ==
  /\ c \in observed
  /\ conns[c] = "open"
  /\ Total(told, MaxConns) < MaxStatus
  /\ type = "disconnect" => ~ServerLost(told[c])
  /\ type = "reconnect" => ServerLost(told[c])
  /\ told' = [told EXCEPT ![c] = @ \o StatusFor(type)]
  /\ event' = [Ev("status", type) EXCEPT !.id = c]
  /\ UNCHANGED <<session, conns, watchers, activeTimers, observed, unsubCalls, tasks, issued,
                 outer>>

\* ------------------------------------------------------- publish/subscribe
\* A guard that lets a null connection through.
NotConnected_never(c) == FALSE

\* `!nc` of lines 377, 409, 415, 453, 563.
NotConnected(c) == c = 0

\* A subscribe that reports the counter in place of the registry's size.
SubscribeSize_counter(reg, counter) == counter

\* The `size` subscribe returns, `subscriptions.size` of line 395.
SubscribeSize(reg, counter) == Cardinality(DOMAIN reg)

\* An unsubscribe that forgets to drop the entry from the registry.
RegistryDelete_keep(reg, id) == reg

\* `subscriptions.delete(id)` of line 402.
RegistryDelete(reg, id) == [i \in DOMAIN reg \ {id} |-> reg[i]]

\* subscribe(subject, onMessage), lines 376-396, the id being `++subCounter`
\* (380).  nc.subscribe throws on a connection that is closed, before any id is
\* taken.
subscribe(subject) ==
  IF NotConnected(nc)
  THEN /\ event' = Ev("subscribe", "Not Connected")
       /\ UNCHANGED <<session, library, tasks, issued, outer>>
  ELSE IF ~IsOpen(nc)
  THEN /\ event' = Ev("subscribe", "connection closed")
       /\ UNCHANGED <<session, library, tasks, issued, outer>>
  ELSE /\ subCounter < MaxSubs
       /\ subCounter' = subCounter + 1
       /\ subscriptions' = (subCounter' :> [sub |-> nc, subject |-> subject]) @@ subscriptions
       /\ issued' = Append(issued, subCounter')
       /\ UNCHANGED outer
       /\ event' = [Ev("subscribe", "ok") EXCEPT !.id = subCounter',
                       !.size = SubscribeSize(subscriptions', subCounter')]
       /\ UNCHANGED <<nc, kv, jsm, activeKvWatcher, statsInterval, conns, observed, told, watchers,
                      activeTimers, unsubCalls, tasks>>

\* An unsubscribe that gives the id back by stepping the counter down.
unsubscribe_reuse(id) ==
  /\ subscriptions' = IF id \in DOMAIN subscriptions THEN RegistryDelete(subscriptions, id)
                      ELSE subscriptions
  /\ subCounter' = IF id \in DOMAIN subscriptions THEN subCounter - 1 ELSE subCounter
  /\ unsubCalls' = IF id \in DOMAIN subscriptions
                   THEN [unsubCalls EXCEPT ![id] = unsubCalls[id] + 1] ELSE unsubCalls
  /\ event' = [Ev("unsubscribe", "ok") EXCEPT !.id = id, !.size = Cardinality(DOMAIN subscriptions')]
  /\ UNCHANGED <<nc, kv, jsm, activeKvWatcher, statsInterval, conns, observed, told, watchers,
                 activeTimers, tasks, issued, outer>>

\* unsubscribe(id), lines 398-406.
unsubscribe(id) ==
  /\ subscriptions' = IF id \in DOMAIN subscriptions THEN RegistryDelete(subscriptions, id)
                      ELSE subscriptions
  /\ unsubCalls' = IF id \in DOMAIN subscriptions
                   THEN [unsubCalls EXCEPT ![id] = unsubCalls[id] + 1] ELSE unsubCalls
  /\ event' = [Ev("unsubscribe", "ok") EXCEPT !.id = id, !.size = Cardinality(DOMAIN subscriptions')]
  /\ UNCHANGED <<nc, kv, jsm, activeKvWatcher, subCounter, statsInterval, conns, observed, told, watchers,
                 activeTimers, tasks, issued, outer>>

\* ------------------------------------------------------------ delivery loop
MaxBytes == 2       \* bytes of a message payload

\* Message payloads are bytes, 65 the letter A and 255 a byte no text holds.
\* `sc.decode(m.data)` of line 386, taken to throw on a byte that is not text.
Decodable(payload) == \A i \in 1..Len(payload) : payload[i] < 128
Decode(payload) == [kind |-> "text", text |-> [i \in 1..Len(payload) |-> "A"], bytes |-> 0]
\* `[Binary Data: ${m.data.length} bytes]` of line 390.
BinaryData(payload) == [kind |-> "Binary Data", text |-> <<>>, bytes |-> Len(payload)]

\* One turn of the `for await` loop of lines 384-392 for a message m, as the
\* onMessage calls it makes, each with what it was called with and whether it
\* threw: first says whether the call inside the try throws, second whether
\* the call inside the catch block (388-391, with the placeholder) does.
LoopBody(payload, first, second) ==
  IF ~Decodable(payload) THEN <<[data |-> BinaryData(payload), threw |-> second]>>
  ELSE IF first THEN <<[data |-> Decode(payload), threw |-> TRUE],
                       [data |-> BinaryData(payload), threw |-> second]>>
  ELSE <<[data |-> Decode(payload), threw |-> FALSE]>>

\* The loop body lets an exception out exactly when its last call threw, which
\* is then a call made in the catch block.
LoopEnds(calls) == calls # <<>> /\ calls[Len(calls)].threw /\ calls[Len(calls)].data.kind = "Binary Data"

\* A message arrives on a registered subscription whose connection is open and
\* whose loop still runs; lines 384-392.
deliver(id, payload, first, second) ==
  /\ id \in DOMAIN subscriptions
  /\ IsOpen(subscriptions[id].sub)
  /\ <<subscriptions[id].sub, id>> \notin deadLoops
  /\ arg' = [payload |-> payload]
  /\ ret' = [kind |-> "onMessage", calls |-> LoopBody(payload, first, second)]
  /\ deadLoops' = IF LoopEnds(ret'.calls) THEN deadLoops \cup {<<subscriptions[id].sub, id>>}
                  ELSE deadLoops
  /\ event' = [Ev("message", IF LoopEnds(ret'.calls) THEN "loop ended" ELSE "ok")
                 EXCEPT !.id = id, !.size = Len(ret'.calls)]
  /\ UNCHANGED <<session, library, tasks, issued, localStorage, page>>

\* ---------------------------------------------------------------- header text
\* A JavaScript string is a sequence of characters.  A header text is given by
\* its JSON tokens, whitespace included; a token carries its characters.
Tok(t, v) == [t |-> t, v |-> v]
WS == Tok("ws", <<" ">>)
P(c) == Tok("punct", <<c>>)
StrTok(s) == Tok("string", s)
LitTok(w) == Tok("literal", w)

TrueText == <<"t", "r", "u", "e">>
FalseText == <<"f", "a", "l", "s", "e">>
NullText == <<"n", "u", "l", "l">>
Digits == <<"0", "1", "2", "3", "4", "5", "6", "7", "8", "9">>

\* JavaScript values: k is the type, s the characters of a string, the lexeme of
\* a number or the word of a literal, items the elements of an array or the
\* members {key, val} of an object in insertion order.
JV(k, s, items) == [k |-> k, s |-> s, items |-> items]
JUndefined == JV("undefined", <<>>, <<>>)
JNull == JV("null", NullText, <<>>)
JString(s) == JV("string", s, <<>>)
JNumber(lex) == JV("number", lex, <<>>)
JArray(items) == JV("array", <<>>, items)
JObject(members) == JV("object", <<>>, members)

\* `jsonStr.trim()` of line 433.
Trim(text) ==
  LET solid == {i \in 1..Len(text) : text[i].t # "ws"}
  IN IF solid = {} THEN <<>>
     ELSE SubSeq(text, CHOOSE i \in solid : \A j \in solid : i <= j,
                       CHOOSE i \in solid : \A j \in solid : i >= j)

\* Assigning a member while parsing an object: a repeated key keeps its place
\* and takes the later value.
ObjSet(members, key, val) ==
  IF \E i \in 1..Len(members) : members[i].key = key
  THEN [i \in 1..Len(members) |->
          IF members[i].key = key THEN [key |-> key, val |-> val] ELSE members[i]]
  ELSE Append(members, [key |-> key, val |-> val])

ParseFail == [ok |-> FALSE, val |-> JUndefined, next |-> 0]
ParseOk(v, n) == [ok |-> TRUE, val |-> v, next |-> n]

RECURSIVE ParseValue(_, _)
RECURSIVE ParseElements(_, _, _, _)
RECURSIVE ParseMembers(_, _, _, _)

\* The elements of an array from token i on; a `]` closes it except right after
\* a comma.
ParseElements(toks, i, acc, afterComma) ==
  IF i > Len(toks) THEN ParseFail
  ELSE IF toks[i] = P("]") THEN (IF afterComma THEN ParseFail ELSE ParseOk(JArray(acc), i + 1))
  ELSE LET r == ParseValue(toks, i)
       IN IF ~r.ok \/ r.next > Len(toks) THEN ParseFail
          ELSE IF toks[r.next] = P(",")
               THEN ParseElements(toks, r.next + 1, Append(acc, r.val), TRUE)
          ELSE IF toks[r.next] = P("]")
               THEN ParseOk(JArray(Append(acc, r.val)), r.next + 1)
          ELSE ParseFail

\* The members of an object from token i on: string key, colon, value.
ParseMembers(toks, i, acc, afterComma) ==
  IF i > Len(toks) THEN ParseFail
  ELSE IF toks[i] = P("}") THEN (IF afterComma THEN ParseFail ELSE ParseOk(JObject(acc), i + 1))
  ELSE IF toks[i].t # "string" \/ i + 1 > Len(toks) THEN ParseFail
  ELSE IF toks[i + 1] # P(":") THEN ParseFail
  ELSE LET r == ParseValue(toks, i + 2)
       IN IF ~r.ok \/ r.next > Len(toks) THEN ParseFail
          ELSE IF toks[r.next] = P(",")
               THEN ParseMembers(toks, r.next + 1, ObjSet(acc, toks[i].v, r.val), TRUE)
          ELSE IF toks[r.next] = P("}")
               THEN ParseOk(JObject(ObjSet(acc, toks[i].v, r.val)), r.next + 1)
          ELSE ParseFail

ParseValue(toks, i) ==
  IF i > Len(toks) THEN ParseFail
  ELSE CASE toks[i].t = "string" -> ParseOk(JString(toks[i].v), i + 1)
         [] toks[i].t = "number" -> ParseOk(JNumber(toks[i].v), i + 1)
         [] toks[i].t = "literal" ->
              IF toks[i].v = TrueText THEN ParseOk(JV("boolean", TrueText, <<>>), i + 1)
              ELSE IF toks[i].v = FalseText THEN ParseOk(JV("boolean", FalseText, <<>>), i + 1)
              ELSE IF toks[i].v = NullText THEN ParseOk(JNull, i + 1)
              ELSE ParseFail
         [] toks[i] = P("[") -> ParseElements(toks, i + 1, <<>>, FALSE)
         [] toks[i] = P("{") -> ParseMembers(toks, i + 1, <<>>, FALSE)
         [] OTHER -> ParseFail

\* `JSON.parse(val)` of line 437: whitespace between tokens is skipped and the
\* whole text must be one value.
JSONParse(text) ==
  LET NotWs(tk) == tk.t # "ws"
      toks == SelectSeq(text, NotWs)
      r == ParseValue(toks, 1)
  IN IF r.ok /\ r.next = Len(toks) + 1 THEN r ELSE ParseFail

RECURSIVE String(_)
RECURSIVE JoinItems(_, _)

\* Array.prototype.join(","), which String(array) is: null and undefined
\* elements join as nothing.
JoinItems(items, i) ==
  IF i > Len(items) THEN <<>>
  ELSE (IF i > 1 THEN <<",">> ELSE <<>>)
       \o (IF items[i].k \in {"null", "undefined"} THEN <<>> ELSE String(items[i]))
       \o JoinItems(items, i + 1)

\* `String(v)` of lines 439 and 440; a number goes by its lexeme, 1.0 being the
\* number 1.
String(v) ==
  CASE v.k = "string" -> v.s
    [] v.k = "number" ->
         IF Len(v.s) > 2 /\ SubSeq(v.s, Len(v.s) - 1, Len(v.s)) = <<".", "0">>
         THEN SubSeq(v.s, 1, Len(v.s) - 2) ELSE v.s
    [] v.k = "array" -> JoinItems(v.items, 1)
    [] v.k = "object" ->
         <<"[", "o", "b", "j", "e", "c", "t", " ", "O", "b", "j", "e", "c", "t", "]">>
    [] OTHER -> v.s

\* The enumerable properties `for (const k in obj)` of line 438 visits, with
\* `obj[k]`: the members of an object, the elements of an array and the
\* characters of a string by index, nothing for a number, a boolean or null.
Properties(v) ==
  CASE v.k = "object" -> v.items
    [] v.k = "array" -> [i \in 1..Len(v.items) |-> [key |-> <<Digits[i]>>, val |-> v.items[i]]]
    [] v.k = "string" -> [i \in 1..Len(v.s) |-> [key |-> <<Digits[i]>>, val |-> JString(<<v.s[i]>>)]]
    [] OTHER -> <<>>

\* An entry per array element that is joined into one value instead.
EntriesFor_joined(m) == <<[key |-> m.key, value |-> String(m.val)]>>

\* Lines 439-440 for one property: `h.append(k, String(v))` per element of an
\* array, else one `h.append(k, String(obj[k]))`.
EntriesFor(m) ==
  IF m.val.k = "array"
  THEN [j \in 1..Len(m.val.items) |-> [key |-> m.key, value |-> String(m.val.items[j])]]
  ELSE <<[key |-> m.key, value |-> String(m.val)]>>

RECURSIVE AppendAll(_, _)
\* The header map after the loop of lines 438-441, as its appends in order.
AppendAll(props, i) ==
  IF i > Len(props) THEN <<>> ELSE EntriesFor(props[i]) \o AppendAll(props, i + 1)

\* A parseHeaders that lets a text it cannot parse pass as no headers.
parseHeaders_lenient(text) ==
  LET val == Trim(text)
  IN IF val = <<>> \/ ~JSONParse(val).ok THEN [kind |-> "undefined", h |-> <<>>]
     ELSE [kind |-> "headers", h |-> AppendAll(Properties(JSONParse(val).val), 1)]

\* parseHeaders(jsonStr), lines 432-446: undefined, a header map, or the error.
parseHeaders(text) ==
  LET val == Trim(text)
  IN IF val = <<>> THEN [kind |-> "undefined", h |-> <<>>]
     ELSE IF JSONParse(val).ok
          THEN [kind |-> "headers", h |-> AppendAll(Properties(JSONParse(val).val), 1)]
          ELSE [kind |-> "Invalid Headers JSON", h |-> <<>>]

\* What a header map answers: its keys and the values of a key in order.
HeaderKeys(h) == {h[i].key : i \in 1..Len(h)}
HeaderValues(h, key) ==
  LET Has(e) == e.key = key
      es == SelectSeq(h, Has)
  IN [i \in 1..Len(es) |-> es[i].value]

\* ---- the header texts a caller hands in
RECURSIVE Render(_, _)
RECURSIVE RenderItems(_, _, _)
RECURSIVE RenderMembers(_, _, _)
Sep(c, sp) == IF sp THEN <<P(c), WS>> ELSE <<P(c)>>

RenderItems(items, i, sp) ==
  IF i > Len(items) THEN <<>>
  ELSE (IF i > 1 THEN Sep(",", sp) ELSE <<>>) \o Render(items[i], sp)
       \o RenderItems(items, i + 1, sp)

RenderMembers(ms, i, sp) ==
  IF i > Len(ms) THEN <<>>
  ELSE (IF i > 1 THEN Sep(",", sp) ELSE <<>>) \o <<StrTok(ms[i].key)>> \o Sep(":", sp)
       \o Render(ms[i].val, sp) \o RenderMembers(ms, i + 1, sp)

\* The JSON text of a value as someone types it, sp for a blank after each
\* comma and colon.  Members are written as listed, a repeated key twice.
Render(v, sp) ==
  CASE v.k = "string" -> <<StrTok(v.s)>>
    [] v.k = "number" -> <<Tok("number", v.s)>>
    [] v.k = "array" -> <<P("[")>> \o RenderItems(v.items, 1, sp) \o <<P("]")>>
    [] v.k = "object" -> <<P("{")>> \o RenderMembers(v.items, 1, sp) \o <<P("}")>>
    [] OTHER -> <<LitTok(v.s)>>

MaxElems == 2       \* elements of an array value in a header text
KeyA == <<"a">>
KeyB == <<"b">>
Scalars == {JString(<<"x">>), JNumber(<<"1", ".", "0">>), JNull}
\* The values written in the texts, arrays holding up to n elements.
ArrayValues(n) == {JArray(a) : a \in UNION {[1..m -> Scalars] : m \in 0..n}}
ObjectValues(n) ==
  UNION {{JObject([i \in 1..Len(ks) |-> [key |-> ks[i], val |-> vs[i]]]) :
            vs \in [1..Len(ks) -> Scalars \cup ArrayValues(n) \cup {JObject(<<>>)}]} :
           ks \in {<<>>, <<KeyA>>, <<KeyA, KeyB>>, <<KeyB, KeyA>>, <<KeyA, KeyA>>}}

\* A header text with what it denotes: json is the value written, JUndefined
\* when the text is not JSON.
Input(text, json) == [text |-> text, json |-> json]
Written(v) ==
  {Input(Render(v, sp), v) : sp \in BOOLEAN}
    \cup {Input(<<WS>> \o Render(v, sp) \o <<WS, WS>>, v) : sp \in BOOLEAN}
BlankInputs == {Input(<<>>, JUndefined), Input(<<WS>>, JUndefined), Input(<<WS, WS>>, JUndefined)}
\* Texts that are not JSON: a word that is no literal, a comma before the
\* closing brace, a key without a value, two values; an object text with a
\* brace too many or cut short.
MalformedSamples ==
  {<<LitTok(<<"x">>)>>,
   <<WS, P("{"), StrTok(KeyA), P(":"), StrTok(<<"x">>), P(","), P("}")>>,
   <<P("{"), StrTok(KeyA), P("}")>>,
   <<P("{"), P("}"), WS, P("{"), P("}")>>,
   <<WS, P("{"), StrTok(KeyA), P(":"), P("}")>>}
\* The header texts parseHeaders is tried on: blank ones, objects, other JSON
\* values and texts that are not JSON.
HeaderInputs(n) ==
  BlankInputs
    \cup UNION {Written(v) : v \in ObjectValues(n) \cup Scalars \cup ArrayValues(n)
                                     \cup {JV("boolean", TrueText, <<>>)}}
    \cup {Input(t, JUndefined) :
             t \in {Render(v, FALSE) \o <<P("}")>> : v \in ObjectValues(n)}
                     \cup {SubSeq(Render(v, TRUE), 1, Len(Render(v, TRUE)) - 1) :
                              v \in ObjectValues(n)}
                     \cup MalformedSamples}

\* The header texts publish and request are tried with.
HeaderTexts ==
  {i.text : i \in BlankInputs}
    \cup {Render(JObject(<<[key |-> KeyA, val |-> JString(<<"x">>)]>>), FALSE),
          Render(JNumber(<<"1", ".", "0">>), FALSE),
          <<LitTok(<<"x">>)>>,
          <<P("{"), StrTok(KeyA), P("}")>>,
          <<WS, P("{"), StrTok(KeyA), P(":"), StrTok(<<"x">>), P(","), P("}")>>}

\* parseHeaders applied to the text drawn.
parseHeadersCall ==
  /\ ret = NotCalled
  /\ ret' = parseHeaders(arg.text)
  /\ event' = Ev("parseHeaders", ret'.kind)
  /\ UNCHANGED <<session, library, tasks, issued, arg, deadLoops, localStorage, page>>

\* publish(subject, payload, headersJson), lines 408-412.
publish(text) ==
  /\ event' = IF NotConnected(nc) THEN Ev("publish", "returned")
              ELSE IF parseHeaders(text).kind = "Invalid Headers JSON"
                   THEN Ev("publish", "Invalid Headers JSON")
              ELSE IF ~IsOpen(nc) THEN Ev("publish", "connection closed")
              ELSE Ev("publish", "sent")
  /\ UNCHANGED <<session, library, tasks, issued, outer>>

\* request(subject, payload, headersJson, timeout), lines 414-417 up to the await.
request(text) ==
  /\ IF NotConnected(nc)
     THEN /\ event' = Ev("request", "returned")
          /\ UNCHANGED tasks
     ELSE IF parseHeaders(text).kind = "Invalid Headers JSON"
     THEN /\ event' = Ev("request", "Invalid Headers JSON")
          /\ UNCHANGED tasks
     ELSE IF ~IsOpen(nc)
     THEN /\ event' = Ev("request", "connection closed")
          /\ UNCHANGED tasks
     ELSE /\ HasFreeTask
          /\ tasks' = [tasks EXCEPT ![FreeTask] = [NoTask EXCEPT !.op = "request",
                         !.pc = "request", !.conn = nc]]
          /\ event' = Ev("request", "sent")
  /\ UNCHANGED <<session, library, issued, outer>>

\* `await nc.request(...)` of line 417 resumes with the reply; lines 418-424.
requestResolved(t) ==
  /\ tasks[t].pc = "request"
  /\ IsOpen(tasks[t].conn)
  /\ tasks' = [tasks EXCEPT ![t] = NoTask]
  /\ event' = Ev("request", "reply")
  /\ UNCHANGED <<session, library, issued, outer>>

\* `await nc.request(...)` rejects: timeout, no responders, connection closed.
requestRejected(t) ==
  /\ tasks[t].pc = "request"
  /\ tasks' = [tasks EXCEPT ![t] = NoTask]
  /\ event' = Ev("request", "request failed")
  /\ UNCHANGED <<session, library, issued, outer>>

\* ---------------------------------------------------------------- KV store
\* openKvBucket(bucketName), lines 465-467 up to `await kvm.open(bucketName)`.
openKvBucket(b) ==
  /\ IF IsOpen(nc)
     THEN /\ HasFreeTask
          /\ tasks' = [tasks EXCEPT ![FreeTask] = [NoTask EXCEPT !.op = "openKvBucket",
                         !.pc = "open", !.conn = nc, !.bucket = b]]
          /\ event' = Ev("openKvBucket", "opening")
     ELSE /\ event' = Ev("openKvBucket", "open failed")
          /\ UNCHANGED tasks
  /\ UNCHANGED <<session, library, issued, outer>>

\* `await kvm.open(bucketName)` resumes with the bucket; lines 467-468.
openResolved(t) ==
  /\ tasks[t].pc = "open"
  /\ IsOpen(tasks[t].conn)
  /\ kv' = [conn |-> tasks[t].conn, bucket |-> tasks[t].bucket]
  /\ tasks' = [tasks EXCEPT ![t] = NoTask]
  /\ event' = Ev("openKvBucket", "ok")
  /\ UNCHANGED <<nc, jsm, activeKvWatcher, subscriptions, subCounter, statsInterval,
                 library, issued, outer>>

\* `await kvm.open(bucketName)` rejects: no such bucket, connection closed.
openRejected(t) ==
  /\ tasks[t].pc = "open"
  /\ tasks' = [tasks EXCEPT ![t] = NoTask]
  /\ event' = Ev("openKvBucket", "open failed")
  /\ UNCHANGED <<session, library, issued, outer>>

\* watchKvBucket(onKeyChange), lines 506-510 up to `await kv.watch()`.
watchKvBucket ==
  IF kv = NoKv
  THEN /\ event' = Ev("watchKvBucket", "returned")
       /\ UNCHANGED <<session, library, tasks, issued, outer>>
  ELSE /\ watchers' = StopWatcher(watchers, activeKvWatcher)
       /\ IF IsOpen(kv.conn)
          THEN /\ HasFreeTask
               /\ Len(watchers) < MaxWatchers
               /\ tasks' = [tasks EXCEPT ![FreeTask] = [NoTask EXCEPT !.op = "watchKvBucket",
                              !.pc = "watch", !.conn = kv.conn, !.bucket = kv.bucket]]
               /\ event' = Ev("watchKvBucket", "starting")
          ELSE /\ event' = Ev("watchKvBucket", "watch failed")
               /\ UNCHANGED tasks
       /\ UNCHANGED <<session, conns, observed, told, activeTimers, unsubCalls, issued, outer>>

\* `await kv.watch()` of line 510 resumes with the iterator; lines 511-523.
watchResolved(t) ==
  /\ tasks[t].pc = "watch"
  /\ IsOpen(tasks[t].conn)
  /\ Len(watchers) < MaxWatchers
  /\ watchers' = Append(watchers, [conn |-> tasks[t].conn, bucket |-> tasks[t].bucket,
                                   active |-> TRUE])
  /\ activeKvWatcher' = Len(watchers')
  /\ tasks' = [tasks EXCEPT ![t] = NoTask]
  /\ event' = [Ev("watchKvBucket", "ok") EXCEPT !.id = Len(watchers')]
  /\ UNCHANGED <<nc, kv, jsm, subscriptions, subCounter, statsInterval, conns, observed,
                 told, activeTimers, unsubCalls, issued, outer>>

\* `await kv.watch()` rejects.
watchRejected(t) ==
  /\ tasks[t].pc = "watch"
  /\ tasks' = [tasks EXCEPT ![t] = NoTask]
  /\ event' = Ev("watchKvBucket", "watch failed")
  /\ UNCHANGED <<session, library, issued, outer>>

\* ---- the bucket select box of the page
\* The change handler of the select box, main.js:189-196 up to
\* `await nats.openKvBucket(bucket)`: the key list is cleared, and for a bucket
\* openKvBucket runs up to its own await (part_000:465-467).
kvBucketSelectChange(b) ==
  /\ kvBucketSelect' = b
  /\ kvKeysMap' = {}
  /\ IF b = "none"
     THEN /\ event' = Ev("kvBucketSelect", "returned")
          /\ UNCHANGED tasks
     ELSE IF IsOpen(nc)
     THEN /\ HasFreeTask
          /\ tasks' = [tasks EXCEPT ![FreeTask] = [NoTask EXCEPT !.op = "kvBucketSelect",
                         !.pc = "select", !.conn = nc, !.bucket = b]]
          /\ event' = Ev("kvBucketSelect", "opening")
     ELSE /\ event' = Ev("kvBucketSelect", "open failed")
          /\ UNCHANGED tasks
  /\ UNCHANGED <<session, library, issued, arg, ret, deadLoops, localStorage,
                 logHistory, isPaused, msgCounter>>

\* The handler resumes with the bucket open (part_000:467-468, main.js:196-200):
\* kv is set and watchKvBucket is called, which stops the watcher the session
\* holds and waits for its own (part_000:507-510).
selectOpened(t) ==
  /\ tasks[t].pc = "select"
  /\ IsOpen(tasks[t].conn)
  /\ Len(watchers) < MaxWatchers
  /\ kv' = [conn |-> tasks[t].conn, bucket |-> tasks[t].bucket]
  /\ watchers' = StopWatcher(watchers, activeKvWatcher)
  /\ tasks' = [tasks EXCEPT ![t] = [NoTask EXCEPT !.op = "watchKvBucket",
                 !.pc = "watch", !.conn = tasks[t].conn, !.bucket = tasks[t].bucket]]
  /\ event' = Ev("kvBucketSelect", "watching")
  /\ UNCHANGED <<nc, jsm, activeKvWatcher, subscriptions, subCounter, statsInterval,
                 conns, activeTimers, observed, told, unsubCalls, issued, outer>>

\* The open rejects and the handler's catch shows the message, main.js:219.
selectRejected(t) ==
  /\ tasks[t].pc = "select"
  /\ tasks' = [tasks EXCEPT ![t] = NoTask]
  /\ event' = Ev("kvBucketSelect", "open failed")
  /\ UNCHANGED <<session, library, issued, outer>>

\* The key list after the callback of main.js:200-216 has run for a change of
\* key reported by a watcher on bucket b: a deleted or purged key leaves the
\* list, another key joins it unless it is listed.
OnKeyChange(keys, b, key, op) ==
  IF op \in {"DEL", "PURGE"} THEN {e \in keys : e.key # key}
  ELSE IF \E e \in keys : e.key = key THEN keys
  ELSE keys \cup {[key |-> key, bucket |-> b]}

\* An active watcher yields a change: one turn of the loop of part_000:515-517,
\* which calls the handler's callback.
keyChange(w, key, op) ==
  /\ w \in DOMAIN watchers
  /\ watchers[w].active
  /\ kvKeysMap' = OnKeyChange(kvKeysMap, watchers[w].bucket, key, op)
  /\ event' = [Ev("keyChange", op) EXCEPT !.id = w]
  /\ UNCHANGED <<session, library, tasks, issued, arg, ret, deadLoops, localStorage,
                 logHistory, isPaused, msgCounter, kvBucketSelect>>

\* ---- entries of the open bucket
MaxRevision == 4    \* revisions a key has in the store

RECURSIVE InRevisionOrder(_, _)
\* The entries of the revisions in revs, oldest first, ops giving the operation
\* of each: the order in which `kv.history({ key })` yields them (the library
\* reads them off the bucket's stream, whose sequence is the revision).  A put
\* carries a value, a delete none.
InRevisionOrder(revs, ops) ==
  IF revs = {} THEN <<>>
  ELSE LET r == CHOOSE x \in revs : \A y \in revs : x <= y
       IN <<[revision |-> r, operation |-> ops[r],
             value |-> IF ops[r] = "PUT" THEN [some |-> TRUE, bytes |-> <<65>>]
                       ELSE [some |-> FALSE, bytes |-> <<>>],
             created |-> r]>>
            \o InRevisionOrder(revs \ {r}, ops)

HistoryYields(n) ==
  UNION {{InRevisionOrder(revs, ops) : ops \in [revs -> {"PUT", "DEL"}]} :
           revs \in SUBSET (1..n)}

\* A result left in the order the entries came in.
Reverse_keep(seq) == seq

\* `hist.reverse()` of line 545.
Reverse(seq) == [i \in 1..Len(seq) |-> seq[Len(seq) + 1 - i]]

\* Lines 535-545: what getKvHistory returns for the entries the store yields,
\* the object of lines 538-543 being pushed for each.
HistoryResult(yield) ==
  Reverse([i \in 1..Len(yield) |->
             [revision |-> yield[i].revision, operation |-> yield[i].operation,
              value |-> IF yield[i].value.some THEN Decode(yield[i].value.bytes)
                        ELSE [kind |-> "null", text |-> <<>>, bytes |-> 0],
              created |-> yield[i].created]])

\* The calls on the open bucket, up to their await: getKvValue (526-528),
\* putKvValue (548-550) and deleteKvValue (553-555) throw when no bucket is
\* open, getKvHistory (533-536) returns an empty list then.
KvCall(op, pc, closed) ==
  IF kv = NoKv
  THEN /\ event' = Ev(op, closed)
       /\ UNCHANGED tasks
  ELSE /\ HasFreeTask
       /\ tasks' = [tasks EXCEPT ![FreeTask] = [NoTask EXCEPT !.op = op, !.pc = pc,
                      !.conn = kv.conn, !.bucket = kv.bucket]]
       /\ event' = Ev(op, "store called")

\* getKvValue(key), lines 526-528.
getKvValue ==
  /\ KvCall("getKvValue", "get", "No Bucket Open")
  /\ UNCHANGED <<session, library, issued, outer>>

\* putKvValue(key, value), lines 548-550.
putKvValue ==
  /\ KvCall("putKvValue", "put", "No Bucket Open")
  /\ UNCHANGED <<session, library, issued, outer>>

\* deleteKvValue(key), lines 553-555.
deleteKvValue ==
  /\ KvCall("deleteKvValue", "delete", "No Bucket Open")
  /\ UNCHANGED <<session, library, issued, outer>>

\* getKvHistory(key), lines 533-536.
getKvHistory ==
  /\ KvCall("getKvHistory", "history", "returned []")
  /\ UNCHANGED <<session, library, issued, outer>>

\* `await kv.get(key)`, `await kv.put(...)` or `await kv.delete(key)` resumes.
kvResolved(t) ==
  /\ tasks[t].pc \in {"get", "put", "delete"}
  /\ IsOpen(tasks[t].conn)
  /\ tasks' = [tasks EXCEPT ![t] = NoTask]
  /\ event' = Ev(tasks[t].op, "ok")
  /\ UNCHANGED <<session, library, issued, outer>>

\* `await kv.history({ key })` and the loop over it are through; lines 536-545.
historyResolved(t, yield) ==
  /\ tasks[t].pc = "history"
  /\ IsOpen(tasks[t].conn)
  /\ tasks' = [tasks EXCEPT ![t] = NoTask]
  /\ event' = [Ev("getKvHistory", "ok") EXCEPT !.size = Len(HistoryResult(yield))]
  /\ UNCHANGED <<session, library, issued, outer>>

\* The store call rejects: connection closed, timeout, key not found.
kvRejected(t) ==
  /\ tasks[t].pc \in {"get", "put", "delete", "history"}
  /\ tasks' = [tasks EXCEPT ![t] = NoTask]
  /\ event' = Ev(tasks[t].op, "rejected")
  /\ UNCHANGED <<session, library, issued, outer>>

\* getKvHistory on its own: the entries the store yields are drawn, then
\* turned into the result.
getKvHistoryCall ==
  /\ ret = NotCalled
  /\ ret' = [kind |-> "history", records |-> HistoryResult(arg.yield)]
  /\ event' = [Ev("getKvHistory", "ok") EXCEPT !.size = Len(ret'.records)]
  /\ UNCHANGED <<session, library, tasks, issued, arg, deadLoops, localStorage, page>>

\* ------------------------------------------------------ JetStream manager
\* getJsm(), lines 562-566, as the stream calls open with it (569, 577, 582,
\* 587, 592, 597, 602, 617), up to `await nc.jetstreamManager()`: the cached
\* manager is returned when there is one.
getJsm ==
  /\ IF NotConnected(nc)
     THEN /\ event' = Ev("getJsm", "Not Connected")
          /\ UNCHANGED tasks
     ELSE IF jsm # 0
     THEN /\ event' = [Ev("getJsm", "cached") EXCEPT !.id = jsm]
          /\ UNCHANGED tasks
     ELSE IF ~IsOpen(nc)
     THEN /\ event' = Ev("getJsm", "connection closed")
          /\ UNCHANGED tasks
     ELSE /\ HasFreeTask
          /\ tasks' = [tasks EXCEPT ![FreeTask] = [NoTask EXCEPT !.op = "getJsm",
                         !.pc = "jsm", !.conn = nc]]
          /\ event' = Ev("getJsm", "asking")
  /\ UNCHANGED <<session, library, issued, outer>>

\* `await nc.jetstreamManager()` of line 564 resumes with the manager of the
\* connection it was asked of, which is cached.
jsmResolved(t) ==
  /\ tasks[t].pc = "jsm"
  /\ IsOpen(tasks[t].conn)
  /\ jsm' = tasks[t].conn
  /\ tasks' = [tasks EXCEPT ![t] = NoTask]
  /\ event' = [Ev("getJsm", "ok") EXCEPT !.id = tasks[t].conn]
  /\ UNCHANGED <<nc, kv, activeKvWatcher, subscriptions, subCounter, statsInterval,
                 library, issued, outer>>

\* `await nc.jetstreamManager()` rejects: JetStream not enabled, connection
\* closed, time-out.
jsmRejected(t) ==
  /\ tasks[t].pc = "jsm"
  /\ tasks' = [tasks EXCEPT ![t] = NoTask]
  /\ event' = Ev("getJsm", "rejected")
  /\ UNCHANGED <<session, library, issued, outer>>

\* ------------------------------------------------------- stream messages
MaxSeq == 3         \* the highest sequence number asked for or stored

\* What `mgr.streams.getMessage(name, { seq })` meets at a sequence number: no
\* message, a message with a text or a binary payload, or a message that the
\* call fails to fetch (time-out, connection closed).
\* A stream gives the state of each sequence number it has, "none" beyond.
StateAt(stream, i) == IF i \in DOMAIN stream THEN stream[i] ELSE "none"

\* Lines 618-636: what getStreamMessageRange returns once it has its manager.
\* from is the start after `if(startSeq < 1) startSeq = 1` (618).  Fetched(i) is
\* the promise pushed at lines 623-632 for sequence number i, settled: the
\* record of lines 625-630 when getMessage resolves and the payload (a text
\* one or a binary one) decodes, null by the catch of line 631 whenever
\* getMessage or the then-callback fails.  The nulls are filtered out and the
\* rest reversed (636).
MessageRange(stream, startSeq, endSeq) ==
  LET from == IF startSeq < 1 THEN 1 ELSE startSeq
      null == [seq |-> 0, data |-> NotCalled]
      payload(i) == IF StateAt(stream, i) = "text" THEN <<65>> ELSE <<255>>
      Fetched(i) ==
        IF StateAt(stream, i) \in {"text", "binary"} /\ Decodable(payload(i))
        THEN [seq |-> i, data |-> Decode(payload(i))]
        ELSE null
  IN IF endSeq < from THEN <<>>
     ELSE Reverse(SelectSeq([k \in 1..(endSeq - from + 1) |-> Fetched(from + k - 1)],
                            LAMBDA m : m # null))

\* getStreamMessageRange on its own: the stream and the range are drawn, then
\* lines 618-636 are applied to them.
getStreamMessageRangeCall ==
  /\ ret = NotCalled
  /\ ret' = [kind |-> "messages", list |-> MessageRange(arg.stream, arg.start, arg.end)]
  /\ event' = [Ev("getStreamMessageRange", "ok") EXCEPT !.size = Len(ret'.list)]
  /\ UNCHANGED <<session, library, tasks, issued, arg, deadLoops, localStorage, page>>

\* ------------------------------------------------------ persisted histories
MAX_SUBJECT_HISTORY == 10
MAX_URL_HISTORY == 5
MaxSubjects == 11   \* different subjects a user ever subscribes or publishes to
MaxUrls == 6        \* different server URLs a user ever connects to

\* The decimal digits of a number below 100.
DecimalText(k) ==
  IF k < 10 THEN <<Digits[k + 1]>> ELSE <<Digits[(k \div 10) + 1], Digits[(k % 10) + 1]>>
\* The k-th subject and the k-th URL a user types.
SubjectText(k) == <<"s">> \o DecimalText(k)
UrlText(k) == <<"w", "s", ":", "/", "/", "h">> \o DecimalText(k)

\* `JSON.stringify(trimmed)` of storage.js:67 and 102, for a list of strings.
Stringify(list) == Render(JArray([i \in 1..Len(list) |-> JString(list[i])]), FALSE)

\* getSubjectHistory / getUrlHistory, storage.js:43-51 and 78-86: the stored
\* text parsed, the empty list when nothing is stored or the text is no JSON.
GetHistory(key) ==
  IF localStorage[key] = <<>> \/ ~JSONParse(localStorage[key]).ok THEN <<>>
  ELSE LET items == JSONParse(localStorage[key]).val.items
       IN [i \in 1..Len(items) |-> items[i].s]

\* A filter that lets every entry through.
Filter_all(history, item) == history

\* `history.filter(s => s !== subject)` of storage.js:58 and 93.
Filter(history, item) ==
  LET Other(s) == s # item IN SelectSeq(history, Other)

\* A slice that trims nothing.
Slice_all(list, max) == list

\* `filtered.slice(0, MAX)` of storage.js:64 and 99.
Slice(list, max) == SubSeq(list, 1, IF Len(list) < max THEN Len(list) ELSE max)

\* What a user types next, kept to three cases: nothing, the entry at the
\* front of the history again, and the first of the given texts that the
\* history does not hold.
Choices(history, texts) ==
  {<<>>}
    \cup (IF history = <<>> THEN {} ELSE {history[1]})
    \cup {texts[k] : k \in {j \in 1..Len(texts) :
                              /\ \A i \in 1..Len(history) : history[i] # texts[j]
                              /\ \A l \in 1..(j - 1) :
                                   \E i \in 1..Len(history) : history[i] = texts[l]}}

\* Lines 53-70 and 88-105 of storage.js for the history under key: the entry
\* is filtered out (58, 93), put in front (unshift, 61, 96) and the list is
\* cut to the cap (64, 99); saved says
\* whether localStorage.setItem goes through or throws (quota), which is caught.
AddToHistory(op, key, item, max, saved) ==
  IF item = <<>>
  THEN /\ event' = Ev(op, "returned")
       /\ UNCHANGED localStorage
  ELSE /\ localStorage' =
            IF saved
            THEN [localStorage EXCEPT
                    ![key] = Stringify(Slice(<<item>> \o Filter(GetHistory(key), item), max))]
            ELSE localStorage
       /\ event' = [Ev(op, IF saved THEN "ok" ELSE "Failed to save")
                      EXCEPT !.size = Len(Slice(<<item>> \o Filter(GetHistory(key), item), max))]

\* addSubjectToHistory(subject), storage.js:52-71.
addSubjectToHistory(subject, saved) ==
  /\ AddToHistory("addSubjectToHistory", "nats_subject_history", subject,
                  MAX_SUBJECT_HISTORY, saved)
  /\ UNCHANGED <<session, library, tasks, issued, arg, ret, deadLoops, page>>

\* addUrlToHistory(url), storage.js:87-106.
addUrlToHistory(url, saved) ==
  /\ AddToHistory("addUrlToHistory", "nats_url_history", url, MAX_URL_HISTORY, saved)
  /\ UNCHANGED <<session, library, tasks, issued, arg, ret, deadLoops, page>>

\* clearAllData(), storage.js:112-120.
clearAllData ==
  /\ localStorage' = NoItems
  /\ event' = Ev("clearAllData", "ok")
  /\ UNCHANGED <<session, library, tasks, issued, arg, ret, deadLoops, page>>

\* -------------------------------------------------------------- message log
MAX_LOG_HISTORY == 1000
MaxRendered == 1002 \* messages rendered in a run of the page

\* A shift that drops nothing.
Shift_none(list) == list

\* `logHistory.shift()` of part_001:372.
Shift(list) == Tail(list)

\* addToLogHistory, part_001:351-374, for the entry of the n-th message
\* rendered: the entry is pushed and the oldest one dropped above the cap.
AddToLogHistory(list, n) ==
  IF Len(Append(list, [n |-> n])) > MAX_LOG_HISTORY THEN Shift(Append(list, [n |-> n]))
  ELSE Append(list, [n |-> n])

\* renderMessage, part_001:454-480: nothing is done for a subscription message
\* while the log is paused; otherwise the message is recorded (459) and
\* rendered, which steps the counter (createMessageDiv, 379-435).
renderMessage(isRpc) ==
  /\ msgCounter < MaxRendered
  /\ IF isPaused /\ ~isRpc
     THEN /\ event' = Ev("renderMessage", "paused")
          /\ UNCHANGED <<logHistory, msgCounter>>
     ELSE /\ logHistory' = AddToLogHistory(logHistory, msgCounter)
          /\ msgCounter' = msgCounter + 1
          /\ event' = [Ev("renderMessage", IF isRpc THEN "RPC" ELSE "MSG")
                         EXCEPT !.size = Len(logHistory')]
  /\ UNCHANGED <<session, library, tasks, issued, arg, ret, deadLoops, localStorage,
                 isPaused, kvKeysMap, kvBucketSelect>>

\* toggleLogPause, part_001:482-487.
toggleLogPause ==
  /\ isPaused' = ~isPaused
  /\ event' = Ev("toggleLogPause", IF isPaused' THEN "Resume" ELSE "Pause")
  /\ UNCHANGED <<session, library, tasks, issued, arg, ret, deadLoops, localStorage,
                 logHistory, msgCounter, kvKeysMap, kvBucketSelect>>

\* clearLogs, part_001:489-492.  The user clears the log right at the start or
\* once it is full.
clearLogs ==
  /\ msgCounter <= 1 \/ Len(logHistory) = MAX_LOG_HISTORY
  /\ logHistory' = <<>>
  /\ event' = Ev("clearLogs", "ok")
  /\ UNCHANGED <<session, library, tasks, issued, arg, ret, deadLoops, localStorage,
                 isPaused, msgCounter, kvKeysMap, kvBucketSelect>>

Next ==
  \/ disconnect
  \/ \E creds \in CredsKinds : connectToNats(creds)
  \/ \E t \in TaskIds : closeResolved(t)
  \/ \E t \in TaskIds, text \in CredsTexts : credsResolved(t, text)
  \/ \E t \in TaskIds : connectResolved(t)
  \/ \E t \in TaskIds : connectRejected(t)
  \/ \E c \in ConnIds : connectionLost(c)
  \/ \E subject \in Subjects : subscribe(subject)
  \/ \E id \in 1..MaxSubs : unsubscribe(id)
  \/ \E b \in Buckets : openKvBucket(b)
  \/ \E t \in TaskIds : openResolved(t)
  \/ \E t \in TaskIds : openRejected(t)
  \/ watchKvBucket
  \/ \E t \in TaskIds : watchResolved(t)
  \/ \E t \in TaskIds : watchRejected(t)

Spec == Init /\ [][Next]_vars

\* The subscription registry against the connection life cycle.
SpecSub ==
  /\ Init
  /\ [][
      \/ disconnect
      \/ \E creds \in CredsKinds : connectToNats(creds)
      \/ \E t \in TaskIds : closeResolved(t)
      \/ \E t \in TaskIds, text \in CredsTexts : credsResolved(t, text)
      \/ \E t \in TaskIds : connectResolved(t)
      \/ \E t \in TaskIds : connectRejected(t)
      \/ \E c \in ConnIds : connectionLost(c)
      \/ \E subject \in Subjects : subscribe(subject)
      \/ \E id \in 1..MaxSubs : unsubscribe(id)
     ]_vars

\* The messaging calls, which read the session and never write it, against the
\* connection life cycle.
SpecMsg ==
  /\ Init
  /\ [][
      \/ disconnect
      \/ \E creds \in CredsKinds : connectToNats(creds)
      \/ \E t \in TaskIds : closeResolved(t)
      \/ \E t \in TaskIds, text \in CredsTexts : credsResolved(t, text)
      \/ \E t \in TaskIds : connectResolved(t)
      \/ \E t \in TaskIds : connectRejected(t)
      \/ \E c \in ConnIds : connectionLost(c)
      \/ \E text \in HeaderTexts : publish(text)
      \/ \E text \in HeaderTexts : request(text)
      \/ \E t \in TaskIds : requestResolved(t)
      \/ \E t \in TaskIds : requestRejected(t)
     ]_vars

\* The connection life cycle alone.
SpecConn ==
  /\ Init
  /\ [][
      \/ disconnect
      \/ \E creds \in CredsKinds : connectToNats(creds)
      \/ \E t \in TaskIds : closeResolved(t)
      \/ \E t \in TaskIds, text \in CredsTexts : credsResolved(t, text)
      \/ \E t \in TaskIds : connectResolved(t)
      \/ \E t \in TaskIds : connectRejected(t)
      \/ \E c \in ConnIds : connectionLost(c)
     ]_vars

\* What the session says of its connection while connections come and go.
SpecLive ==
  /\ Init
  /\ [][
      \/ disconnect
      \/ connectToNats(NoAuth)
      \/ \E t \in TaskIds : closeResolved(t)
      \/ \E t \in TaskIds : connectResolved(t)
      \/ \E c \in ConnIds : connectionLost(c)
      \/ \E subject \in Subjects : subscribe(subject)
      \/ isConnected
     ]_vars

\* The handles of the session against the connection life cycle.
SpecHandles ==
  /\ Init
  /\ [][
      \/ disconnect
      \/ connectToNats(NoAuth)
      \/ \E t \in TaskIds : closeResolved(t)
      \/ \E t \in TaskIds : connectResolved(t)
      \/ \E c \in ConnIds : connectionLost(c)
      \/ openKvBucket("A")
      \/ \E t \in TaskIds : openResolved(t)
      \/ \E t \in TaskIds : openRejected(t)
      \/ watchKvBucket
      \/ \E t \in TaskIds : watchResolved(t)
      \/ \E t \in TaskIds : watchRejected(t)
      \/ getJsm
      \/ \E t \in TaskIds : jsmResolved(t)
      \/ \E t \in TaskIds : jsmRejected(t)
     ]_vars

\* The bucket select box of the page on a session.
SpecSelect ==
  /\ Init
  /\ [][
      \/ connectToNats(NoAuth)
      \/ \E t \in TaskIds : closeResolved(t)
      \/ \E t \in TaskIds : connectResolved(t)
      \/ \E b \in Buckets \cup {"none"} : kvBucketSelectChange(b)
      \/ \E t \in TaskIds : selectOpened(t)
      \/ \E t \in TaskIds : selectRejected(t)
      \/ \E t \in TaskIds : watchResolved(t)
      \/ \E t \in TaskIds : watchRejected(t)
      \/ \E w \in 1..MaxWatchers, key \in {"k"}, op \in {"PUT", "DEL", "PURGE"} : keyChange(w, key, op)
     ]_vars

\* The status and close observers against the connection life cycle.
SpecStatus ==
  /\ Init
  /\ [][
      \/ disconnect
      \/ connectToNats(NoAuth)
      \/ \E t \in TaskIds : closeResolved(t)
      \/ \E t \in TaskIds : connectResolved(t)
      \/ \E c \in ConnIds : connectionLost(c)
      \/ \E c \in ConnIds, type \in {"disconnect", "reconnect", "update"} : statusEvent(c, type)
     ]_vars

\* Message delivery to the subscriptions of a session.
SpecDlv ==
  /\ Init
  /\ [][
      \/ connectToNats(NoAuth)
      \/ \E t \in TaskIds : closeResolved(t)
      \/ \E t \in TaskIds : connectResolved(t)
      \/ \E c \in ConnIds : connectionLost(c)
      \/ \E subject \in Subjects : subscribe(subject)
      \/ \E id \in 1..MaxSubs : unsubscribe(id)
      \/ \E id \in 1..MaxSubs, payload \in UNION {[1..m -> {65, 255}] : m \in 0..MaxBytes}, first, second \in BOOLEAN :
           deliver(id, payload, first, second)
     ]_vars

\* The calls on the open bucket against the connection life cycle.
SpecKv ==
  /\ Init
  /\ [][
      \/ disconnect
      \/ connectToNats(NoAuth)
      \/ \E t \in TaskIds : closeResolved(t)
      \/ \E t \in TaskIds : connectResolved(t)
      \/ \E b \in Buckets : openKvBucket(b)
      \/ \E t \in TaskIds : openResolved(t)
      \/ \E t \in TaskIds : openRejected(t)
      \/ getKvValue
      \/ putKvValue
      \/ deleteKvValue
      \/ getKvHistory
      \/ \E t \in TaskIds : kvResolved(t)
      \/ \E t \in TaskIds, yield \in HistoryYields(1) : historyResolved(t, yield)
      \/ \E t \in TaskIds : kvRejected(t)
     ]_vars

InitHist ==
  /\ InitSession
  /\ arg \in {[yield |-> y] : y \in HistoryYields(MaxRevision)}
  /\ ret = NotCalled
  /\ Untouched
SpecHist == InitHist /\ [][getKvHistoryCall]_vars

\* The stats poller against the connection life cycle.
SpecStats ==
  /\ Init
  /\ [][
      \/ disconnect
      \/ connectToNats(NoAuth)
      \/ \E t \in TaskIds : closeResolved(t)
      \/ \E t \in TaskIds : connectResolved(t)
      \/ \E t \in TaskIds : connectRejected(t)
      \/ \E c \in ConnIds : connectionLost(c)
      \/ \E h \in ConnIds : statsTick(h)
      \/ \E t \in TaskIds : rttResolved(t)
      \/ \E t \in TaskIds : rttRejected(t)
     ]_vars

\* The persisted histories.
NextStore ==
  \/ \E saved \in BOOLEAN :
       \E subject \in Choices(GetHistory("nats_subject_history"), [k \in 1..MaxSubjects |-> SubjectText(k)]) :
         addSubjectToHistory(subject, saved)
  \/ \E saved \in BOOLEAN :
       \E url \in Choices(GetHistory("nats_url_history"), [k \in 1..MaxUrls |-> UrlText(k)]) :
         addUrlToHistory(url, saved)
  \/ clearAllData

SpecStore == Init /\ [][NextStore]_vars

\* Lists without a repeated entry.
NoDuplicates(list) == \A i, j \in 1..Len(list) : list[i] = list[j] => i = j
\* The histories an addition is tried on.  URLs: every list without repeats of
\* up to MAX_URL_HISTORY of the n URLs.  Subjects: every run of up to
\* MAX_SUBJECT_HISTORY neighbours out of the n subjects taken in order.

\* One addition on its own: a stored history and an entry are drawn, then
\* addSubjectToHistory or addUrlToHistory is applied to them.
InitAdd ==
  /\ InitSession
  /\ arg \in {[key |-> "nats_subject_history", history |-> h, item |-> x] :
                h \in {[i \in 1..len |-> SubjectText(from + i - 1)] :
                         from \in 1..MaxSubjects, len \in 0..MAX_SUBJECT_HISTORY}
                        \cap Seq({SubjectText(k) : k \in 1..MaxSubjects}),
                x \in {<<>>} \cup {SubjectText(k) : k \in 1..MaxSubjects}}
               \cup {[key |-> "nats_url_history", history |-> h, item |-> x] :
                        h \in {list \in UNION {[1..m -> {UrlText(k) : k \in 1..MaxUrls}] :
                                                 m \in 0..MAX_URL_HISTORY} :
                                 NoDuplicates(list)},
                        x \in {<<>>} \cup {UrlText(k) : k \in 1..MaxUrls}}
  /\ ret = NotCalled
  /\ localStorage = [NoItems EXCEPT ![arg.key] = Stringify(arg.history)]
  /\ deadLoops = {}
  /\ logHistory = <<>>
  /\ isPaused = FALSE
  /\ msgCounter = 0
  /\ kvKeysMap = {}
  /\ kvBucketSelect = "none"
NextAdd ==
  \/ \E saved \in BOOLEAN :
       /\ event.op = "init" /\ arg.key = "nats_subject_history"
       /\ addSubjectToHistory(arg.item, saved)
  \/ \E saved \in BOOLEAN :
       /\ event.op = "init" /\ arg.key = "nats_url_history"
       /\ addUrlToHistory(arg.item, saved)
SpecAdd == InitAdd /\ [][NextAdd]_vars

\* The message log of the page.
SpecLog ==
  /\ Init
  /\ [][
      \/ \E isRpc \in BOOLEAN : renderMessage(isRpc)
      \/ toggleLogPause
      \/ clearLogs
     ]_vars

\* The options of connectToNats on their own: the caller's authOptions and the
\* text of the file are drawn, then lines 282-297 are applied to them.
connectOptionsCall ==
  /\ ret = NotCalled
  /\ ret' = IF arg.auth.credsFile # "none" /\ IndexOf(arg.text, JwtMarker) = -1
            THEN [kind |-> "Invalid .creds file", opts |-> NoOpts]
            ELSE [kind |-> "opts", opts |-> ConnectOptions(arg.auth, arg.text)]
  /\ event' = Ev("connectToNats", ret'.kind)
  /\ UNCHANGED <<session, library, tasks, issued, arg, deadLoops, localStorage, page>>

InitOpts ==
  /\ InitSession
  /\ arg \in {[auth |-> AuthOptions(f, t, u, p), text |-> x] :
                f \in {"none", "file"}, t \in {"", "s3cr3t"}, u \in {"", "alice"},
                p \in {"", "pw"}, x \in CredsTexts}
  /\ ret = NotCalled
  /\ Untouched
SpecOpts == InitOpts /\ [][connectOptionsCall]_vars

InitRange ==
  /\ InitSession
  /\ arg \in {[stream |-> st, start |-> a, end |-> b] :
                st \in [1..MaxSeq -> {"none", "text", "binary", "fetch failed"}], a \in (-1)..(MaxSeq + 1), b \in (-1)..(MaxSeq + 1)}
  /\ ret = NotCalled
  /\ Untouched
SpecRange == InitRange /\ [][getStreamMessageRangeCall]_vars

\* parseHeaders on its own: a header text is drawn, then parsed.
InitHdr == InitSession /\ arg \in HeaderInputs(MaxElems) /\ ret = NotCalled /\ Untouched
SpecHdr == InitHdr /\ [][parseHeadersCall]_vars

\* ------------------------------------------------------------------ claims
ActiveWatchers == {w \in DOMAIN watchers : watchers[w].active}
OpenConns == {c \in ConnIds : conns[c] = "open"}

\* C1: the count the latest subscribe or unsubscribe call reported is the number
\* of subscriptions the registry holds.
C1_CountMatchesRegistry ==
  (event.op \in {"subscribe", "unsubscribe"} /\ event.res = "ok")
    => event.size = Cardinality(DOMAIN subscriptions)

\* Two subscriptions were made and the first was then removed: the count is 1.
C1_Witness ==
  /\ event.op = "unsubscribe" /\ event.id = 1 /\ event.size = 1
  /\ subCounter = 2 /\ DOMAIN subscriptions = {2}

\* C2: at most one key-value watcher is active at any time.
C2_AtMostOneWatcher == Cardinality(ActiveWatchers) <= 1

\* C3: once openKvBucket has returned, no watcher started on a bucket opened
\* earlier is still active.
C3_OpenStopsWatcher ==
  (event.op = "openKvBucket" /\ event.res = "ok") => ActiveWatchers = {}

\* C4: every connection that was opened is the one the session holds or is closed.
C4_OneConnection == \A c \in OpenConns : c = nc

\* C5: when a connectToNats call that found a session opens its connection, the
\* earlier session is gone: no other connection is open, no watcher is active, the
\* registry is empty and the counter is 0, so the next subscribe returns id 1.
C5_TornDownBeforeOpen ==
  (event.op = "connectToNats" /\ event.res = "ok" /\ event.had)
    => /\ OpenConns = {nc}
       /\ ActiveWatchers = {} /\ activeKvWatcher = 0
       /\ subscriptions = NoSubs /\ subCounter = 0

\* C6: when disconnect() has completed the session holds no connection, no bucket
\* and no watcher, the registry is empty, the counter is 0 and no stats timer fires.
C6_DisconnectClean ==
  (event.op = "disconnect" /\ event.res = "ok")
    => /\ nc = 0 /\ kv = NoKv /\ activeKvWatcher = 0
       /\ subscriptions = NoSubs /\ subCounter = 0
       /\ activeTimers = {}

\* C7: disconnect() called while no connection is held raises no error and changes
\* nothing: no field of the session, no connection, no watcher, no timer.
C7_DisconnectNoop ==
  [][(nc = 0 /\ event'.op = "disconnect" /\ \A t \in TaskIds : tasks[t].pc = "close" => tasks'[t] = tasks[t])
       => (event'.res = "ok" /\ UNCHANGED <<session, library, tasks>>)]_vars

\* C8: subscribe called while no connection is held fails with "Not Connected" and
\* leaves the registry and the counter as they were.
C8_SubscribeNotConnected ==
  [][(nc = 0 /\ event'.op = "subscribe")
       => (event'.res = "Not Connected"
           /\ UNCHANGED <<subscriptions, subCounter, issued, tasks>>)]_vars

\* A session was opened and torn down, and subscribe was then refused.
C8_Witness ==
  /\ event.op = "subscribe" /\ event.res = "Not Connected"
  /\ nc = 0 /\ statsInterval # 0

\* C9: publish and request called while no connection is held fail with a
\* not-connected error.
C9_NotConnectedError ==
  (nc = 0 /\ event.op \in {"publish", "request"} /\ event.res \notin {"reply", "request failed"})
    => event.res = "Not Connected"

\* C10: the ids subscribe has returned since the counter was last reset are
\* 1, 2, 3, ... in that order, whatever was unsubscribed in between.
C10_IdsFresh ==
  /\ Len(issued) = subCounter
  /\ \A i \in DOMAIN issued : issued[i] = i
  /\ (event.op = "subscribe" /\ event.res = "ok") => event.id = subCounter

\* Id 1 was freed by unsubscribe and the next subscribe returned id 2.
C10_Witness ==
  /\ event.op = "subscribe" /\ event.res = "ok" /\ event.id = 2
  /\ DOMAIN subscriptions = {2}

\* C11: unsubscribe(id) of a registered id calls unsubscribe on its handle, for the
\* only time, and removes just that entry; of an id that is not registered it
\* releases nothing and leaves the registry as it was; either way it returns the
\* size of the registry without error.
C11_UnsubscribeIdempotent ==
  [][event'.op = "unsubscribe"
       => /\ event'.res = "ok"
          /\ event'.size = Cardinality(DOMAIN subscriptions')
          /\ \A i \in 1..MaxSubs : unsubCalls'[i] <= 1
          /\ IF event'.id \in DOMAIN subscriptions
             THEN /\ DOMAIN subscriptions' = DOMAIN subscriptions \ {event'.id}
                  /\ \A j \in DOMAIN subscriptions' : subscriptions'[j] = subscriptions[j]
                  /\ unsubCalls[event'.id] = 0 /\ unsubCalls'[event'.id] = 1
                  /\ \A j \in 1..MaxSubs \ {event'.id} : unsubCalls'[j] = unsubCalls[j]
             ELSE UNCHANGED <<subscriptions, unsubCalls>>]_vars

\* Id 1 of two subscriptions was unsubscribed: its handle was released once and
\* the other subscription is still registered.
C11_Witness ==
  /\ event.op = "unsubscribe" /\ event.id = 1 /\ event.size = 1
  /\ unsubCalls[1] = 1 /\ unsubCalls[2] = 0 /\ DOMAIN subscriptions = {2}

\* C12: publish and request on a session whose connection is open, given a
\* header text that is not blank and not JSON, fail with the invalid-headers
\* error and forward nothing: no message goes out and no request is started.
C12_MalformedHeadersRejected ==
  [][\A text \in HeaderTexts \cap MalformedSamples :
       (IsOpen(nc) /\ Trim(text) # <<>> /\ (publish(text) \/ request(text)))
         => /\ event'.res = "Invalid Headers JSON"
            /\ event'.res # "sent"
            /\ UNCHANGED <<session, library, tasks>>]_vars

\* A publish on an open connection was refused for its headers.
C12_Witness ==
  /\ event.op = "publish" /\ event.res = "Invalid Headers JSON"
  /\ IsOpen(nc)

\* What the object written in a header text holds: its keys, and under a key
\* the value given last.
ObjectKeys(json) == {json.items[i].key : i \in 1..Len(json.items)}
LastValue(json, key) ==
  LET at == {i \in 1..Len(json.items) : json.items[i].key = key}
  IN json.items[CHOOSE i \in at : \A j \in at : i >= j].val
\* The header values a member value stands for: every element of an array in
\* order, else the value itself, each in string form.
ExpectedValues(v) ==
  IF v.k = "array" THEN [j \in 1..Len(v.items) |-> String(v.items[j])] ELSE <<String(v)>>

\* C13 as stated: for a text that is a JSON object the header map holds exactly
\* the object's keys, each with its values in string form, and a blank text
\* gives no header map.
C13_ExactlyTheObjectKeys ==
  ret.kind # "not called"
    => /\ arg \in BlankInputs => ret.kind = "undefined"
       /\ arg.json.k = "object"
            => /\ ret.kind = "headers"
               /\ HeaderKeys(ret.h) = ObjectKeys(arg.json)
               /\ \A key \in ObjectKeys(arg.json) :
                    HeaderValues(ret.h, key) = ExpectedValues(LastValue(arg.json, key))

\* C13, amended: for a text that is a JSON object the header map holds the
\* object's keys except those whose value is an empty array, and no other key;
\* a key with a scalar value has that one value in string form, a key with an
\* array value one entry per element in order; a blank text gives no header map.
C13_KeysWithValues ==
  ret.kind # "not called"
    => /\ arg \in BlankInputs => ret.kind = "undefined"
       /\ arg.json.k = "object"
            => /\ ret.kind = "headers"
               /\ HeaderKeys(ret.h) =
                    {key \in ObjectKeys(arg.json) : LastValue(arg.json, key) # JArray(<<>>)}
               /\ \A key \in ObjectKeys(arg.json) :
                    HeaderValues(ret.h, key) = ExpectedValues(LastValue(arg.json, key))

\* {"a": ["x", 1.0], "b": null} was parsed: a has the two values x and 1, b the
\* one value null.
C13_Witness ==
  /\ arg.json = JObject(<<[key |-> KeyA, val |-> JArray(<<JString(<<"x">>), JNumber(<<"1", ".", "0">>)>>)],
                          [key |-> KeyB, val |-> JNull]>>)
  /\ ret.kind = "headers"
  /\ HeaderValues(ret.h, KeyA) = << <<"x">>, <<"1">> >>
  /\ HeaderValues(ret.h, KeyB) = <<NullText>>

\* The authentication methods present in connection options.
AuthMethods(opts) ==
  (IF opts.authenticator # <<>> THEN {"creds"} ELSE {})
    \cup (IF opts.token # Unset THEN {"token"} ELSE {})
    \cup (IF opts.user # Unset \/ opts.pass # Unset THEN {"userpass"} ELSE {})

\* C14: the options connect() is given carry at most one authentication
\* method: the credentials file if one is given, otherwise the token if it is
\* not empty, otherwise user and password if the user is not empty; nothing of
\* a lower-precedence credential is in them.
C14_AuthPrecedence ==
  ret.kind = "opts"
    => /\ Cardinality(AuthMethods(ret.opts)) <= 1
       /\ AuthMethods(ret.opts) =
            IF arg.auth.credsFile # "none" THEN {"creds"}
            ELSE IF arg.auth.token # "" THEN {"token"}
            ELSE IF arg.auth.user # "" THEN {"userpass"}
            ELSE {}
       /\ ret.opts.token \in {Unset, arg.auth.token}
       /\ ret.opts.user \in {Unset, arg.auth.user}
       /\ ret.opts.pass \in {Unset, arg.auth.pass}
       /\ arg.auth.credsFile = "none" => ret.opts.authenticator = <<>>

\* The options were built for a caller who gave a token, a user and a password
\* but no file: they hold the token alone.
C14_Witness ==
  /\ arg.auth = AuthOptions("none", "s3cr3t", "alice", "pw")
  /\ ret.kind = "opts"
  /\ ret.opts = [NoOpts EXCEPT !.token = "s3cr3t"]

\* C15: when the text of the credentials file does not hold the user-JWT begin
\* marker, connectToNats fails with an error at that point: no connection is
\* opened, no status or close observer is attached, no stats poller is started
\* and the call is over.
C15_InvalidCredsFails ==
  [][\A t \in TaskIds, text \in CredsTexts :
       ((\A i \in 1..Len(text) : text[i] # JwtMarker) /\ credsResolved(t, text))
         => /\ event'.op = "connectToNats" /\ event'.res = "Invalid .creds file"
            /\ tasks'[t] = NoTask
            /\ UNCHANGED <<nc, conns, observed, statsInterval, activeTimers>>]_vars

\* A first connectToNats has failed on its credentials file: nothing is
\* connected, observed or polled.
C15_Witness ==
  /\ event.op = "connectToNats" /\ event.res = "Invalid .creds file"
  /\ nc = 0 /\ OpenConns = {} /\ observed = {} /\ activeTimers = {}
  /\ \A t \in TaskIds : tasks[t] = NoTask

\* C16: when the payload of a message received on a subscription cannot be
\* decoded, the callback is called once with the placeholder naming the
\* payload's byte count, and the delivery loop goes on to the later messages.
C16_DecodeFailureRecovered ==
  (event.op = "message" /\ ~Decodable(arg.payload))
    => /\ Len(ret.calls) = 1
       /\ ret.calls[1].data = BinaryData(arg.payload)
       /\ ret.calls[1].data.bytes = Len(arg.payload)
       /\ event.res # "loop ended"
       /\ <<subscriptions[event.id].sub, event.id>> \notin deadLoops

\* C17: getKvHistory returns the records of the entries the store yielded, each
\* once and no other, in strictly decreasing revision order.
C17_HistoryNewestFirst ==
  ret.kind = "history"
    => /\ Len(ret.records) = Len(arg.yield)
       /\ \A i \in 1..(Len(ret.records) - 1) :
            ret.records[i].revision > ret.records[i + 1].revision
       /\ \A j \in 1..Len(arg.yield) :
            Cardinality({i \in 1..Len(ret.records) :
                           /\ ret.records[i].revision = arg.yield[j].revision
                           /\ ret.records[i].operation = arg.yield[j].operation
                           /\ ret.records[i].created = arg.yield[j].created
                           /\ (ret.records[i].value.kind = "null") = ~arg.yield[j].value.some}) = 1

\* A history of three entries, a delete between two puts, came back with
\* revision 4 first and revision 1 last.
C17_Witness ==
  /\ ret.kind = "history"
  /\ Len(ret.records) = 3
  /\ ret.records[1].revision = 4 /\ ret.records[1].operation = "PUT"
  /\ ret.records[2].revision = 2 /\ ret.records[2].operation = "DEL"
  /\ ret.records[3].revision = 1 /\ ret.records[3].value.text = <<"A">>

\* C18: getKvValue, putKvValue, deleteKvValue and getKvHistory called while no
\* bucket is open each fail with the error 'No Bucket Open' (and so call nothing
\* on the store).
C18_NoBucketOpen ==
  (event.op \in {"getKvValue", "putKvValue", "deleteKvValue", "getKvHistory"}
     /\ event.res \notin {"ok", "rejected"} /\ kv = NoKv)
    => event.res = "No Bucket Open"

\* The latency samples in flight.
Sampling(ts) == {t \in TaskIds : ts[t].pc = "rtt"}

\* C19: a connect that succeeds leaves the stats poller's timer running; a tick
\* starts a latency sample exactly when a connection is held and not closed;
\* a sample that fails is dropped: no new sample is started for it and the
\* timer keeps running, so later ticks fire.
C19_StatsPoller ==
  [][/\ (event'.op = "connectToNats" /\ event'.res = "ok")
          => statsInterval' # 0 /\ statsInterval' \in activeTimers'
     /\ (event'.op = "statsTick" /\ event'.res \in {"skipped", "sampling"})
          => /\ (event'.res = "sampling") <=> (nc # 0 /\ conns[nc] = "open")
             /\ event'.res = "skipped" => tasks' = tasks
             /\ event'.res = "sampling" => Cardinality(Sampling(tasks')) = Cardinality(Sampling(tasks)) + 1
     /\ (event'.op = "statsTick" /\ event'.res = "Stats poll failed")
          => /\ Cardinality(Sampling(tasks')) = Cardinality(Sampling(tasks)) - 1
             /\ UNCHANGED <<statsInterval, activeTimers>>]_vars

\* A sample has failed on a connection that is still open: the timer is still
\* set, so the next tick will sample again.
C19_Witness ==
  /\ event.op = "statsTick" /\ event.res = "Stats poll failed"
  /\ IsOpen(nc) /\ statsInterval \in activeTimers
  /\ ENABLED statsTick(statsInterval)

\* C20 as stated: the persisted subject history holds at most 5 entries and
\* the persisted URL history at most 10.
C20_SubjectFiveUrlTen ==
  /\ Len(GetHistory("nats_subject_history")) <= 5
  /\ Len(GetHistory("nats_url_history")) <= 10

\* C20, amended: after any sequence of additions the persisted subject history
\* holds at most 10 entries and the persisted URL history at most 5.
C20_SubjectTenUrlFive ==
  /\ Len(GetHistory("nats_subject_history")) <= MAX_SUBJECT_HISTORY
  /\ Len(GetHistory("nats_url_history")) <= MAX_URL_HISTORY

\* Both histories are full and have lost their first entry.
C20_Witness ==
  /\ Len(GetHistory("nats_subject_history")) = 10
  /\ Len(GetHistory("nats_url_history")) = 5
  /\ GetHistory("nats_subject_history")[1] = SubjectText(11)
  /\ \A i \in 1..10 : GetHistory("nats_subject_history")[i] # SubjectText(1)
  /\ GetHistory("nats_url_history")[1] = UrlText(6)
  /\ \A i \in 1..5 : GetHistory("nats_url_history")[i] # UrlText(1)

\* C21: for each connection that connectToNats opened the observer is told
\* 'disconnected' once, at the step that closes the connection (a disconnect()
\* or the connection ending on its own) and as the last thing it is told;
\* before that it is told 'reconnecting' for each disconnect event of the
\* library and 'connected' for each reconnect event, and nothing otherwise.
C21_StatusObserver ==
  [][\A c \in ConnIds :
       /\ told'[c] =
            IF conns[c] = "open" /\ conns'[c] = "closed" THEN Append(told[c], "disconnected")
            ELSE IF event'.op = "status" /\ event'.id = c /\ event'.res = "disconnect"
                 THEN Append(told[c], "reconnecting")
            ELSE IF event'.op = "status" /\ event'.id = c /\ event'.res = "reconnect"
                 THEN Append(told[c], "connected")
            ELSE told[c]
       /\ Cardinality({i \in 1..Len(told'[c]) : told'[c][i] = "disconnected"}) <= 1
       /\ (conns'[c] = "closed")
            <=> (told'[c] # <<>> /\ told'[c][Len(told'[c])] = "disconnected")]_vars

\* Connection 1 lost and regained its server and then ended on its own, and
\* connection 2 was closed by disconnect().
C21_Witness ==
  /\ told[1] = <<"reconnecting", "connected", "disconnected">>
  /\ told[2] = <<"disconnected">>
  /\ event.op = "disconnect" /\ event.res = "ok"

\* C22: getStreamMessageRange returns exactly the messages that exist with a
\* sequence number in the range asked for, each once, in strictly decreasing
\* sequence order; it is empty when the end is below the start.
C22_ExactlyTheRange ==
  ret.kind = "messages"
    => /\ {ret.list[k].seq : k \in 1..Len(ret.list)}
            = {i \in 1..(MaxSeq + 1) :
                 /\ (IF arg.start < 1 THEN 1 ELSE arg.start) <= i /\ i <= arg.end
                 /\ StateAt(arg.stream, i) # "none"}
       /\ \A k \in 1..(Len(ret.list) - 1) : ret.list[k].seq > ret.list[k + 1].seq
       /\ arg.end < (IF arg.start < 1 THEN 1 ELSE arg.start) => ret.list = <<>>

\* C23: the export log history never holds more than 1000 entries, and it is
\* always the most recent recorded messages in arrival order: its entries are
\* consecutive, and a non-empty history ends with the message recorded last.
C23_LogHistoryCapped ==
  /\ Len(logHistory) <= 1000
  /\ \A i \in 1..Len(logHistory) : logHistory[i].n = logHistory[1].n + i - 1
  /\ logHistory # <<>> => logHistory[Len(logHistory)].n = msgCounter - 1
  /\ (event.op = "renderMessage" /\ event.res # "paused")
       => logHistory # <<>> /\ event.size = Len(logHistory)

\* A message was recorded at the cap: the history still holds 1000 entries and
\* the oldest one, the first message, is gone.
C23_Witness ==
  /\ event.op = "renderMessage" /\ event.res = "MSG"
  /\ Len(logHistory) = 1000
  /\ logHistory[1].n = 1 /\ logHistory[1000].n = 1000

\* C24: with no call in flight (so no disconnect() under way), isConnected()
\* returns true only while the connection the session holds is open; once
\* that connection has closed on its own, isConnected() returns false and
\* subscribe fails with the not-connected error.
C24_ConnectedMeansOpen ==
  (\A t \in TaskIds : tasks[t] = NoTask)
    => /\ (event.op = "isConnected" /\ event.res = "true") => IsOpen(nc)
       /\ (event.op = "isConnected" /\ ~IsOpen(nc)) => event.res = "false"
       /\ (event.op = "subscribe" /\ ~IsOpen(nc)) => event.res = "Not Connected"

\* C25: every handle the session holds (open bucket, active watcher, cached
\* JetStream manager) was obtained from the connection the session holds, and
\* none is held while no connection is held.
C25_HandlesOfHeldConnection ==
  /\ kv # NoKv => (nc # 0 /\ kv.conn = nc)
  /\ jsm # 0 => (nc # 0 /\ jsm = nc)
  /\ (activeKvWatcher # 0 /\ watchers[activeKvWatcher].active)
       => (nc # 0 /\ watchers[activeKvWatcher].conn = nc)

\* C26: when connectToNats fails, on its credentials file or on the library
\* refusing the connection, the session is fully disconnected: it holds no
\* connection, bucket, watcher or JetStream manager, the registry is empty,
\* the counter is 0 and no stats timer fires.
C26_FailedConnectDisconnected ==
  (event.op = "connectToNats" /\ event.res \in {"Invalid .creds file", "connect failed"})
    => /\ nc = 0 /\ kv = NoKv /\ activeKvWatcher = 0 /\ jsm = 0
       /\ subscriptions = NoSubs /\ subCounter = 0
       /\ activeTimers = {}

\* C27: for every message received on a subscription the callback is called
\* exactly once, also when the callback throws, and a throwing callback does
\* not end the delivery loop of a subscription that is still registered.
C27_CallbackOnce ==
  event.op = "message"
    => /\ Len(ret.calls) = 1
       /\ event.res = "ok"
       /\ event.id \in DOMAIN subscriptions
            => <<subscriptions[event.id].sub, event.id>> \notin deadLoops

\* C28: once a bucket is selected and the key list cleared, the list holds
\* only keys that a watcher on the selected bucket reported.
C28_KeysOfSelectedBucket == \A e \in kvKeysMap : e.bucket = kvBucketSelect

====
